---- MODULE Spec2Model ----
(***************************************************************************)
(* A model of convert_pdf.updated.py: the bounding-box deduplicator        *)
(* (_dedupe_bboxes), the table-extraction loop (extract_tables_markdown)   *)
(* and the two conversion drivers (convert_pdf_to_markdown and             *)
(* convert_with_page_chunks).                                              *)
(*                                                                         *)
(* The PDF library is the environment: opening the document, rendering it, *)
(* loading a page, Page.find_tables and Table.to_markdown either return a  *)
(* value or raise.  What find_tables returns for a page and a strategy is  *)
(* chosen when the call is made; a run visits every page at most once, so  *)
(* this is the same as fixing the document beforehand.                     *)
(*                                                                         *)
(* A Python string is modelled as the sequence of its lines               *)
(* (s.split("\n")): "" is <<Blank>>, "a\n" is <<a, Blank>>.  Coordinates   *)
(* are integers in page units.                                             *)
(***************************************************************************)
EXTENDS Integers, Sequences, FiniteSets, TLC

\* ------------------------------------------------------------------ bounds
\* Largest page count of a document.
MaxPages == 2
\* Most tables one find_tables call returns.
MaxTables == 2
\* Most results of the detector over one run (all pages, all strategies):
\* the tables it returns and the errors it raises.
MaxDetections == 3
\* The same over one conversion.
MaxConvDetections == 2
\* Largest coordinate of a candidate rectangle in the deduplicator's inputs.
MaxCoord == 3
\* Longest list of accepted rectangles in the deduplicator's inputs.
MaxSeen == 2

\* --------------------------------------------------------------- constants
\* The tolerance of _dedupe_bboxes: abs(...) < 2.
Tol == 2
\* The width of the page number in a chunk's file name: {i + 1:03d}.
PadWidth == 3

VARIABLES
  \* control
  pc,            \* where the program is
  caller,        \* who called extract_tables_markdown: "direct", "whole", "chunked"
  err,           \* the exception that left the program, "none" while there is none
  \* the document and the call's arguments
  page_count,    \* doc.page_count
  requested,     \* page_numbers_0_based as passed
  \* extract_tables_markdown
  pages_iter,    \* the part of pages_iter the for loop has not reached yet
  pno,           \* the loop's page number
  sidx,          \* index into strategies of the strategy tried next
  tf,            \* the part of tf.tables the for loop has not reached yet
  seen_bboxes,
  page_tables,
  out,
  result,        \* the value extract_tables_markdown returned
  \* the path handed to a conversion
  pdf_file,      \* [exists, suffix]
  include_tables,
  md_text,       \* convert_pdf_to_markdown's md_text / the chunk's page_text
  pages_data,
  chunk_i,       \* convert_with_page_chunks' loop index i
  fs,            \* the files on disk: name -> content
  dirs,          \* the directories on disk
  \* the deduplicator called on its own
  dd_bboxes, dd_bbox, dd_result,
  \* history, for stating the properties
  opened,        \* the document was opened (pymupdf.open was called)
  written,       \* the names of the files this run wrote, in order
  ndet,          \* tables the detector returned and errors it raised so far
  page_dupes,    \* the bboxes of the current page's tables rejected as duplicates
  page_calls,    \* the strategies find_tables was called with on the current page
  page_raised,   \* those of them for which find_tables raised
  visited,       \* the pages the loop reached, in order
  with_tables,   \* the pages on which a table was accepted
  any_raised,    \* some find_tables call of this run raised
  rendered       \* the text pymupdf4llm.to_markdown returned for the whole document

exVars == <<pages_iter, pno, sidx, tf, seen_bboxes, page_tables, out, result>>
cvVars == <<pdf_file, include_tables, md_text, pages_data, chunk_i, fs, dirs>>
ddVars == <<dd_bboxes, dd_bbox, dd_result>>
histVars == <<opened, written, ndet, page_dupes, page_calls, page_raised, visited,
              with_tables, any_raised, rendered>>
vars == <<pc, caller, err, page_count, requested, exVars, cvVars, ddVars, histVars>>

\* ------------------------------------------------------------- the strings
Blank == [k |-> "blank"]
EmptyStr == <<Blank>>

RECURSIVE RStrip(_)
\* str.rstrip() of a string whose lines are tokens or blank
RStrip(s) ==
  IF Len(s) > 1 /\ s[Len(s)] = Blank THEN RStrip(SubSeq(s, 1, Len(s) - 1)) ELSE s

RECURSIVE LStrip(_)
LStrip(s) == IF Len(s) > 1 /\ s[1] = Blank THEN LStrip(Tail(s)) ELSE s

\* str.strip()
Strip(s) == RStrip(LStrip(s))

\* "\n".join(lines)
Join(lines) == IF lines = <<>> THEN EmptyStr ELSE lines

\* s + "\n"
AppendNL(s) == s \o <<Blank>>

\* a.rstrip() + "\n\n" + b + "\n", for b that starts with a non-blank line
WithTables(a, b) == RStrip(a) \o <<Blank>> \o b \o <<Blank>>

\* ---------------------------------------------------------- the rectangles
Abs(x) == IF x < 0 THEN -x ELSE x

\* One near-duplicate test of _dedupe_bboxes, with a tolerance of <= instead of <.
NearInclusive(b, c) ==
  /\ Abs(c[1] - b[1]) <= Tol
  /\ Abs(c[2] - b[2]) <= Tol
  /\ Abs(c[3] - b[3]) <= Tol
  /\ Abs(c[4] - b[4]) <= Tol

\* The condition of line 69: bbox c against one accepted bbox b.
Near(b, c) ==
  /\ Abs(c[1] - b[1]) < Tol
  /\ Abs(c[2] - b[2]) < Tol
  /\ Abs(c[3] - b[3]) < Tol
  /\ Abs(c[4] - b[4]) < Tol

RECURSIVE _dedupe_bboxes(_, _)
\* The linear scan: True at the first accepted bbox near the candidate.
_dedupe_bboxes(bboxes, bbox) ==
  IF bboxes = <<>> THEN FALSE
  ELSE IF Near(Head(bboxes), bbox) THEN TRUE
  ELSE _dedupe_bboxes(Tail(bboxes), bbox)

\* -------------------------------------------------------------- the tables
\* Lines 92-97 with the first two strategies in the other order.
strategiesLinesFirst == <<"lines", "lines_strict", "text">>

\* Lines 92-97: the strategies, in the order they are tried.
strategies == <<"lines_strict", "lines", "text">>
NStrategies == Len(strategies)

\* A 10 x 10 rectangle whose corner is at (d, d).
Rect(d) == <<d, d, 10 + d, 10 + d>>

\* What the detector may return on page p.  A, B and C are tables whose
\* rectangles form a chain (A near B, B near C, A not near C); D and E are
\* degenerate detections; C's to_markdown raises.
TablesOn(p) ==
  { [page |-> p, id |-> "A", bbox |-> Rect(0), row_count |-> 2, col_count |-> 2, md_ok |-> TRUE],
    [page |-> p, id |-> "B", bbox |-> Rect(1), row_count |-> 3, col_count |-> 2, md_ok |-> TRUE],
    [page |-> p, id |-> "C", bbox |-> Rect(2), row_count |-> 2, col_count |-> 3, md_ok |-> FALSE],
    [page |-> p, id |-> "D", bbox |-> Rect(0), row_count |-> 1, col_count |-> 2, md_ok |-> TRUE],
    [page |-> p, id |-> "E", bbox |-> Rect(1), row_count |-> 2, col_count |-> 1, md_ok |-> TRUE] }

\* The values of tf.tables on page p: sequences of at most MaxTables tables.
TableSeqs(p) ==
  UNION { [1..m -> TablesOn(p)] : m \in 0..MaxTables }

\* Line 113 with the column test forgotten.
DegenerateRowsOnly(t) == t.row_count < 2

\* Line 113: a tiny / degenerate "table".
Degenerate(t) == t.row_count < 2 \/ t.col_count < 2

\* ------------------------------------------------------- the output's lines
Title == [k |-> "title"]
PageHeading(p) == [k |-> "page", n |-> p + 1]
TableHeading(i, strat, t) ==
  [k |-> "table", i |-> i, strategy |-> strat, rows |-> t.row_count, cols |-> t.col_count]
\* t.to_markdown(...).strip(), or the note of line 132 when it raises
TableBody(t) == IF t.md_ok THEN [k |-> "md", t |-> t] ELSE [k |-> "failed", t |-> t]

RECURSIVE TableLines(_, _)
\* Lines 125-133 for the tables from index i on.
TableLines(pts, i) ==
  IF i > Len(pts) THEN <<>>
  ELSE <<TableHeading(i, pts[i][1], pts[i][2]), TableBody(pts[i][2]), Blank>>
         \o TableLines(pts, i + 1)

\* Lines 121-133: what one page adds to out.
PageSection(p, pts) ==
  IF pts = <<>> THEN <<>> ELSE <<PageHeading(p)>> \o TableLines(pts, 1)

\* Lines 135-138 with the test of line 135 forgotten.
ReturnValueAlways(o) == AppendNL(Strip(Join(<<Title, Blank>> \o o)))

\* Lines 135-138: the value extract_tables_markdown returns.
ReturnValue(o) ==
  IF o = <<>> THEN EmptyStr ELSE AppendNL(Strip(Join(<<Title, Blank>> \o o)))

\* The page lists a caller may pass: no index twice.
RECURSIVE Perms(_)
Perms(S) ==
  IF S = {} THEN {<<>>}
  ELSE UNION { { <<x>> \o p : p \in Perms(S \ {x}) } : x \in S }

PageLists(n) == UNION { Perms(S) : S \in SUBSET (0..(n - 1)) }

\* The argument page_numbers_0_based: None, or a list of page numbers.
NoneArg == [given |-> FALSE, pages |-> <<>>]
ListArg(l) == [given |-> TRUE, pages |-> l]

RECURSIVE Range0(_, _)
\* list(range(a, b))
Range0(a, b) == IF a >= b THEN <<>> ELSE <<a>> \o Range0(a + 1, b)

\* Line 99.
PagesIter(arg, n) == IF arg.given THEN arg.pages ELSE Range0(0, n)

\* ------------------------------------------------------ paths and files
\* str.lower() on one character of a suffix: an ASCII capital becomes its
\* small letter, every other ASCII character is kept.
LowerChar(c) ==
  LET upper == <<"A", "B", "C", "D", "E", "F", "G", "H", "I", "J", "K", "L", "M",
                 "N", "O", "P", "Q", "R", "S", "T", "U", "V", "W", "X", "Y", "Z">>
      lower == <<"a", "b", "c", "d", "e", "f", "g", "h", "i", "j", "k", "l", "m",
                 "n", "o", "p", "q", "r", "s", "t", "u", "v", "w", "x", "y", "z">>
      at    == { i \in DOMAIN upper : upper[i] = c }
  IN  IF at = {} THEN c ELSE lower[CHOOSE i \in at : TRUE]

\* pdf_file.suffix.lower()
Lower(s) == [i \in DOMAIN s |-> LowerChar(s[i])]

DotPdf == <<".", "p", "d", "f">>

\* The suffixes of the paths handed to a conversion.
Suffixes == { DotPdf, <<".", "P", "D", "F">>, <<".", "t", "x", "t">> }

\* Lines 154-155: the path is not a PDF's.
WrongType(f) == Lower(f.suffix) # DotPdf

DigitChars == <<"0", "1", "2", "3", "4", "5", "6", "7", "8", "9">>

RECURSIVE Digits(_)
\* The decimal digits of n >= 0.
Digits(n) ==
  IF n < 10 THEN <<DigitChars[n + 1]>>
  ELSE Digits(n \div 10) \o <<DigitChars[(n % 10) + 1]>>

RECURSIVE ZeroPad(_)
ZeroPad(d) == IF Len(d) < PadWidth THEN ZeroPad(<<"0">> \o d) ELSE d

\* Line 221: f"page_{i + 1:03d}.md"
PageFileName(i) == <<"page_">> \o ZeroPad(Digits(i + 1)) \o <<".md">>

\* Line 211: pdf_file.parent / f"{pdf_file.stem}_pages"
OutputDir == <<"report", "_pages">>

\* Line 178: Path(output_path) if output_path else pdf_file.with_suffix(".md")
MdFile(output_path) == IF output_path THEN <<"out", ".md">> ELSE <<"report", ".md">>

\* Path.write_text: the file is created or replaced as a whole.
WriteText(files, name, text) ==
  [x \in (DOMAIN files) \cup {name} |-> IF x = name THEN text ELSE files[x]]

NoFiles == [x \in {} |-> EmptyStr]
Stale == <<[k |-> "stale"]>>

\* What the renderer returns: the text, with or without a final newline.
DocText == [k |-> "doctext"]
PageText(i) == [k |-> "text", p |-> i]
Trailings == { <<>>, <<Blank>> }

\* ------------------------------------------------- extract_tables_markdown
\* Lines 89-99: the call, from `who`, with page_numbers_0_based = arg.
ExEnter(arg, who) ==
  /\ caller' = who
  /\ requested' = arg
  /\ pages_iter' = PagesIter(arg, page_count)
  /\ out' = <<>>
  /\ seen_bboxes' = <<>>
  /\ page_tables' = <<>>
  /\ tf' = <<>>
  /\ sidx' = 1
  /\ result' = EmptyStr
  /\ page_dupes' = {}
  /\ page_calls' = <<>>
  /\ page_raised' = {}
  /\ visited' = <<>>
  /\ with_tables' = {}
  /\ any_raised' = FALSE
  /\ pc' = "ex_page"

\* A caller other than the two conversions calls extract_tables_markdown.
ExCall ==
  /\ pc = "start"
  /\ \E arg \in {NoneArg} \cup { ListArg(l) : l \in PageLists(page_count) } :
        ExEnter(arg, "direct")
  /\ opened' = TRUE
  /\ UNCHANGED <<err, page_count, pno, cvVars, ddVars, written, ndet, rendered>>

\* Lines 101-103: the next page of the loop; doc[pno] loads the page.
ExNextPage ==
  /\ pc = "ex_page"
  /\ pages_iter # <<>>
  /\ pno' = Head(pages_iter)
  /\ pages_iter' = Tail(pages_iter)
  /\ visited' = Append(visited, Head(pages_iter))
  /\ \/ /\ pc' = "ex_strategy"
        /\ sidx' = 1
        /\ page_tables' = <<>>
        /\ page_dupes' = {}
        /\ page_calls' = <<>>
        /\ page_raised' = {}
        /\ err' = err
     \/ \* doc[pno] raises: nothing catches it
        /\ pc' = "raised"
        /\ err' = "processing"
        /\ UNCHANGED <<sidx, page_tables, page_dupes, page_calls, page_raised>>
  /\ UNCHANGED <<caller, page_count, requested, tf, seen_bboxes, out, result,
                 cvVars, ddVars, opened, written, ndet, with_tables, any_raised, rendered>>

\* Most results of the detector in a run started by `who`.
Budget(who) == IF who = "direct" THEN MaxDetections ELSE MaxConvDetections

\* Lines 106-109 when the strategy raises, with the page abandoned (break).
AbandonPage(s) == NStrategies + 1

\* Lines 106-109: the strategy tried after one that raised (continue).
AfterStrategyFailure(s) == s + 1

\* Lines 105-111: page.find_tables(strategy=strat) raises or returns tables.
ExFindTables ==
  /\ pc = "ex_strategy"
  /\ sidx <= NStrategies
  /\ page_calls' = Append(page_calls, strategies[sidx])
  /\ \/ /\ ndet < Budget(caller)
        /\ ndet' = ndet + 1
        /\ sidx' = AfterStrategyFailure(sidx)
        /\ page_raised' = page_raised \cup {strategies[sidx]}
        /\ any_raised' = TRUE
        /\ UNCHANGED <<pc, tf>>
     \/ \E tabs \in TableSeqs(pno) :
          /\ ndet + Len(tabs) <= Budget(caller)
          /\ ndet' = ndet + Len(tabs)
          /\ UNCHANGED <<page_raised, any_raised, rendered>>
          /\ IF tabs = <<>>
               THEN sidx' = sidx + 1 /\ UNCHANGED <<pc, tf>>
               ELSE tf' = tabs /\ pc' = "ex_table" /\ sidx' = sidx
  /\ UNCHANGED <<caller, err, page_count, requested, pages_iter, pno, seen_bboxes,
                 page_tables, out, result, cvVars, ddVars, opened, written,
                 page_dupes, visited, with_tables, rendered>>

\* Lines 111-119: one table of tf.tables.
ExTable ==
  /\ pc = "ex_table"
  /\ tf # <<>>
  /\ LET t == Head(tf)
         strat == strategies[sidx]
         dupe == ~Degenerate(t) /\ _dedupe_bboxes(seen_bboxes, t.bbox)
         keep == ~Degenerate(t) /\ ~dupe
     IN /\ seen_bboxes' = IF keep THEN Append(seen_bboxes, t.bbox) ELSE seen_bboxes
        /\ page_tables' = IF keep THEN Append(page_tables, <<strat, t>>) ELSE page_tables
        /\ page_dupes' = IF dupe THEN page_dupes \cup {t.bbox} ELSE page_dupes
        /\ with_tables' = IF keep THEN with_tables \cup {pno} ELSE with_tables
  /\ tf' = Tail(tf)
  /\ IF Tail(tf) = <<>>
       THEN sidx' = sidx + 1 /\ pc' = "ex_strategy"
       ELSE UNCHANGED <<sidx, pc>>
  /\ UNCHANGED <<caller, err, page_count, requested, pages_iter, pno, out, result,
                 cvVars, ddVars, opened, written, ndet, page_calls, page_raised, visited,
                 any_raised, rendered>>

\* Lines 121-133: the strategies are exhausted; the page's section.
ExEmitPage ==
  /\ pc = "ex_strategy"
  /\ sidx > NStrategies
  /\ out' = out \o PageSection(pno, page_tables)
  /\ pc' = "ex_page"
  /\ UNCHANGED <<caller, err, page_count, requested, pages_iter, pno, sidx, tf,
                 seen_bboxes, page_tables, result, cvVars, ddVars, histVars>>

\* Where extract_tables_markdown returns to.
ReturnTo(who) ==
  CASE who = "whole" -> "w_tables"
    [] who = "chunked" -> "c_tables"
    [] OTHER -> "done"

\* Lines 135-138: the loop is over.
ExReturn ==
  /\ pc = "ex_page"
  /\ pages_iter = <<>>
  /\ result' = ReturnValue(out)
  /\ pc' = ReturnTo(caller)
  /\ UNCHANGED <<caller, err, page_count, requested, pages_iter, pno, sidx, tf,
                 seen_bboxes, page_tables, out, cvVars, ddVars, histVars>>

\* ------------------------------------------------- convert_pdf_to_markdown
\* Lines 151-155: the call and the checks of the path.
WholeCall ==
  /\ pc = "start"
  /\ caller' = "whole"
  /\ \E it \in BOOLEAN : include_tables' = it
  /\ IF ~pdf_file.exists
       THEN pc' = "raised" /\ err' = "FileNotFoundError"
       ELSE IF WrongType(pdf_file)
              THEN pc' = "raised" /\ err' = "ValueError"
              ELSE pc' = "w_open" /\ err' = err
  /\ UNCHANGED <<page_count, requested, exVars, pdf_file, md_text, pages_data, chunk_i,
                 fs, dirs, ddVars, histVars>>

\* The rest of convert_pdf_to_markdown with the text written before the tables
\* are extracted.
WholeRenderWriteFirst ==
  /\ pc = "w_open"
  /\ opened' = TRUE
  /\ \E tr \in Trailings, op \in BOOLEAN :
       /\ md_text' = <<DocText>> \o tr
       /\ rendered' = <<DocText>> \o tr
       /\ fs' = WriteText(fs, MdFile(op), <<DocText>> \o tr)
       /\ written' = Append(written, MdFile(op))
       /\ IF include_tables
            THEN /\ ExEnter(NoneArg, "whole")
                 /\ UNCHANGED <<err, page_count, pno, pdf_file, include_tables,
                                pages_data, chunk_i, dirs, ddVars, ndet>>
            ELSE /\ pc' = "done"
                 /\ UNCHANGED <<caller, err, page_count, requested, exVars, pdf_file,
                                include_tables, pages_data, chunk_i, dirs, ddVars, ndet,
                                page_dupes, page_calls, page_raised, visited,
                                with_tables, any_raised>>

\* Lines 163-181: the document is opened and rendered; with tables the
\* extraction starts, without them the text is written.
WholeRender ==
  /\ pc = "w_open"
  /\ opened' = TRUE
  /\ \/ \* pymupdf.open or pymupdf4llm.to_markdown raises
        /\ pc' = "raised"
        /\ err' = "processing"
        /\ UNCHANGED <<caller, page_count, requested, exVars, cvVars, ddVars, written,
                       ndet, page_dupes, page_calls, page_raised, visited,
                       with_tables, any_raised, rendered>>
     \/ \E tr \in Trailings :
          /\ md_text' = <<DocText>> \o tr
          /\ rendered' = <<DocText>> \o tr
          /\ IF include_tables
               THEN /\ ExEnter(NoneArg, "whole")
                    /\ UNCHANGED <<err, page_count, pno, pdf_file, include_tables,
                                   pages_data, chunk_i, fs, dirs, ddVars, written, ndet>>
               ELSE /\ \E op \in BOOLEAN :
                         /\ fs' = WriteText(fs, MdFile(op), <<DocText>> \o tr)
                         /\ written' = Append(written, MdFile(op))
                    /\ pc' = "done"
                    /\ UNCHANGED <<caller, err, page_count, requested, exVars, pdf_file,
                                   include_tables, pages_data, chunk_i, dirs, ddVars, ndet,
                                   page_dupes, page_calls, page_raised, visited,
                                   with_tables, any_raised>>

\* Lines 175-176: the text with the tables, when there are any.
WholeText(text, tables_md) ==
  IF tables_md # EmptyStr THEN WithTables(text, tables_md) ELSE text

\* Lines 174-181: extract_tables_markdown has returned; the file is written.
WholeTables ==
  /\ pc = "w_tables"
  /\ md_text' = WholeText(md_text, result)
  /\ \E op \in BOOLEAN :
       /\ fs' = WriteText(fs, MdFile(op), WholeText(md_text, result))
       /\ written' = Append(written, MdFile(op))
  /\ pc' = "done"
  /\ UNCHANGED <<caller, err, page_count, requested, exVars, pdf_file, include_tables,
                 pages_data, chunk_i, dirs, ddVars, opened, ndet, page_dupes,
                 page_calls, page_raised, visited, with_tables, any_raised, rendered>>

\* ------------------------------------------------ convert_with_page_chunks
\* Lines 193-195: the call and the check of the path.
ChunkedCall ==
  /\ pc = "start"
  /\ caller' = "chunked"
  /\ \E it \in BOOLEAN : include_tables' = it
  /\ IF ~pdf_file.exists
       THEN pc' = "raised" /\ err' = "FileNotFoundError"
       ELSE pc' = "c_open" /\ err' = err
  /\ UNCHANGED <<page_count, requested, exVars, pdf_file, md_text, pages_data, chunk_i,
                 fs, dirs, ddVars, histVars>>

\* Lines 203-212: the document is opened and rendered page by page, the
\* output directory is made.
ChunkedRender ==
  /\ pc = "c_open"
  /\ opened' = TRUE
  /\ \/ \* pymupdf.open or pymupdf4llm.to_markdown raises
        /\ pc' = "raised"
        /\ err' = "processing"
        /\ UNCHANGED <<pages_data, chunk_i, dirs>>
     \/ \E tr \in Trailings :
          /\ pages_data' = [i \in 1..page_count |-> [text |-> <<PageText(i - 1)>> \o tr]]
          /\ dirs' = dirs \cup {OutputDir}
          /\ chunk_i' = 0
          /\ pc' = "c_loop"
          /\ err' = err
  /\ UNCHANGED <<caller, page_count, requested, exVars, pdf_file, include_tables,
                 md_text, fs, ddVars, written, ndet, page_dupes, page_calls,
                 page_raised, visited, with_tables, any_raised, rendered>>

\* Line 217 with the tables of the whole document asked for.
ChunkRangeAll(i) == NoneArg

\* Line 217: page_numbers_0_based=[i]
ChunkRange(i) == ListArg(<<i>>)

\* Lines 214-222: one page of the loop; with tables their extraction starts,
\* without them the page's file is written.
ChunkedPage ==
  /\ pc = "c_loop"
  /\ chunk_i < Len(pages_data)
  /\ md_text' = pages_data[chunk_i + 1].text
  /\ IF include_tables
       THEN /\ ExEnter(ChunkRange(chunk_i), "chunked")
            /\ UNCHANGED <<err, page_count, pno, pdf_file, include_tables, pages_data,
                           chunk_i, fs, dirs, ddVars, opened, written, ndet, rendered>>
       ELSE /\ fs' = WriteText(fs, PageFileName(chunk_i), pages_data[chunk_i + 1].text)
            /\ written' = Append(written, PageFileName(chunk_i))
            /\ chunk_i' = chunk_i + 1
            /\ UNCHANGED <<pc, caller, err, page_count, requested, exVars, pdf_file,
                           include_tables, pages_data, dirs, ddVars, opened, ndet,
                           page_dupes, page_calls, page_raised, visited, with_tables,
                           any_raised, rendered>>

\* Lines 217-219: the page's text with its tables, when there are any.
ChunkText(text, tables_md) ==
  IF Strip(tables_md) # EmptyStr THEN WithTables(text, Strip(tables_md)) ELSE text

\* Lines 217-222: extract_tables_markdown has returned; the page's file is written.
ChunkedTables ==
  /\ pc = "c_tables"
  /\ md_text' = ChunkText(md_text, result)
  /\ fs' = WriteText(fs, PageFileName(chunk_i), ChunkText(md_text, result))
  /\ written' = Append(written, PageFileName(chunk_i))
  /\ chunk_i' = chunk_i + 1
  /\ pc' = "c_loop"
  /\ UNCHANGED <<caller, err, page_count, requested, exVars, pdf_file, include_tables,
                 pages_data, dirs, ddVars, opened, ndet, page_dupes, page_calls,
                 page_raised, visited, with_tables, any_raised, rendered>>

\* Line 224: the loop is over.
ChunkedDone ==
  /\ pc = "c_loop"
  /\ chunk_i >= Len(pages_data)
  /\ pc' = "done"
  /\ UNCHANGED <<caller, err, page_count, requested, exVars, cvVars, ddVars, histVars>>

\* ---------------------------------------------------------- initial states
NoPath == [exists |-> FALSE, suffix |-> DotPdf]

InitCommon ==
  /\ pc = "start"
  /\ caller = "none"
  /\ err = "none"
  /\ requested = NoneArg
  /\ pages_iter = <<>>
  /\ pno = 0
  /\ sidx = 1
  /\ tf = <<>>
  /\ seen_bboxes = <<>>
  /\ page_tables = <<>>
  /\ out = <<>>
  /\ result = EmptyStr
  /\ include_tables = FALSE
  /\ md_text = EmptyStr
  /\ pages_data = <<>>
  /\ chunk_i = 0
  /\ opened = FALSE
  /\ written = <<>>
  /\ ndet = 0
  /\ page_dupes = {}
  /\ page_calls = <<>>
  /\ page_raised = {}
  /\ visited = <<>>
  /\ with_tables = {}
  /\ any_raised = FALSE
  /\ rendered = EmptyStr

InitNoDedupe ==
  /\ dd_bboxes = <<>>
  /\ dd_bbox = <<0, 0, 0, 0>>
  /\ dd_result = "none"

\* extract_tables_markdown called on an open document.
Init ==
  /\ InitCommon
  /\ InitNoDedupe
  /\ page_count \in 1..MaxPages
  /\ pdf_file = NoPath
  /\ fs = NoFiles
  /\ dirs = {}

Next == ExCall \/ ExNextPage \/ ExFindTables \/ ExTable \/ ExEmitPage \/ ExReturn

Spec == Init /\ [][Next]_vars

\* A conversion of a path: the path exists or not, the output directory is
\* absent, or is there with files of an earlier conversion in it.
InitConvert ==
  /\ InitCommon
  /\ InitNoDedupe
  /\ page_count \in 1..MaxPages
  /\ pdf_file \in [exists : BOOLEAN, suffix : Suffixes]
  /\ \/ dirs = {} /\ fs = NoFiles
     \/ /\ pdf_file.exists /\ pdf_file.suffix = DotPdf
        /\ dirs = {OutputDir}
        /\ fs = [x \in {PageFileName(0), PageFileName(MaxPages)} |-> Stale]

NextConvert ==
  \/ WholeCall \/ WholeRender \/ WholeTables
  \/ ChunkedCall \/ ChunkedRender \/ ChunkedPage \/ ChunkedTables \/ ChunkedDone
  \/ ExNextPage \/ ExFindTables \/ ExTable \/ ExEmitPage \/ ExReturn

SpecConvert == InitConvert /\ [][NextConvert]_vars

\* ------------------------------------------------- _dedupe_bboxes on its own
\* The candidate rectangles: every corner on the grid 0..MaxCoord.
Candidates == [1..4 -> 0..MaxCoord]

\* The rectangles the accepted list is made of.
Anchors == { <<1, 1, MaxCoord - 1, MaxCoord - 1>>, <<0, 0, MaxCoord, MaxCoord>> }

InitDedupe ==
  /\ InitCommon
  /\ page_count = 1
  /\ pdf_file = NoPath
  /\ fs = NoFiles
  /\ dirs = {}
  /\ dd_bboxes = <<>>
  /\ dd_bbox \in Candidates
  /\ dd_result = "none"

\* Line 118: seen_bboxes.append(bbox)
DdAppend ==
  /\ dd_result = "none"
  /\ Len(dd_bboxes) < MaxSeen
  /\ \E b \in Anchors : dd_bboxes' = Append(dd_bboxes, b)
  /\ UNCHANGED <<pc, caller, err, page_count, requested, exVars, cvVars, dd_bbox,
                 dd_result, histVars>>

\* Line 116: _dedupe_bboxes(seen_bboxes, bbox)
DdCall ==
  /\ dd_result = "none"
  /\ dd_result' = IF _dedupe_bboxes(dd_bboxes, dd_bbox) THEN "True" ELSE "False"
  /\ UNCHANGED <<pc, caller, err, page_count, requested, exVars, cvVars, dd_bboxes,
                 dd_bbox, histVars>>

NextDedupe == DdAppend \/ DdCall

SpecDedupe == InitDedupe /\ [][NextDedupe]_vars

\* =================================================================== claims
\* What the specification calls near-duplicate rectangles: all four coordinate
\* differences are below 2.
NearDuplicate(a, b) == \A k \in 1..4 : Abs(a[k] - b[k]) < 2

\* The page lines ("## Page n") of a text, as the sequence of their positions.
PageLinesOf(text) == { i \in 1..Len(text) : text[i].k = "page" }

\* The step of extract_tables_markdown that handles one detected table.
TableStep == pc = "ex_table" /\ tf # <<>>

\* The table that step handles was accepted by it.
AcceptedByStep == page_tables' = Append(page_tables, <<strategies[sidx], Head(tf)>>)

\* C1 (as claimed): a table with at least 2 rows and 2 columns is accepted if
\* and only if its rectangle is not a near-duplicate of a rectangle already
\* accepted on the same page; rectangles accepted on other pages never cause a
\* rejection.
C1_AcceptedIffNoDuplicateOnPage ==
  [][ (TableStep /\ Head(tf).row_count >= 2 /\ Head(tf).col_count >= 2)
        => (AcceptedByStep
              <=> ~\E i \in 1..Len(page_tables) :
                     NearDuplicate(page_tables[i][2].bbox, Head(tf).bbox)) ]_vars

\* C3: at every point of extract_tables_markdown no two tables accepted on the
\* page have near-duplicate rectangles, and every accepted table has at least
\* 2 rows and 2 columns.
C3_AcceptedSetInvariant ==
  /\ \A i, j \in 1..Len(page_tables) :
       i < j => ~NearDuplicate(page_tables[i][2].bbox, page_tables[j][2].bbox)
  /\ \A i \in 1..Len(page_tables) :
       page_tables[i][2].row_count >= 2 /\ page_tables[i][2].col_count >= 2

\* C3's case: two tables of different strategies are accepted on a page on
\* which a detection between them (a near-duplicate of both) was dropped.
C3_Witness ==
  /\ Len(page_tables) = 2
  /\ page_tables[1][1] # page_tables[2][1]
  /\ \E b \in page_dupes :
       /\ NearDuplicate(b, page_tables[1][2].bbox)
       /\ NearDuplicate(b, page_tables[2][2].bbox)

\* C4: _dedupe_bboxes returns true if and only if some accepted rectangle
\* differs from the candidate by strictly less than 2 on each of the four
\* coordinates; a difference of exactly 2 is no duplicate, and the empty list
\* yields false.
C4_DuplicateIffWithinTolerance ==
  dd_result # "none" =>
    /\ dd_result = "True" <=>
         \E i \in 1..Len(dd_bboxes) :
           /\ Abs(dd_bbox[1] - dd_bboxes[i][1]) < 2
           /\ Abs(dd_bbox[2] - dd_bboxes[i][2]) < 2
           /\ Abs(dd_bbox[3] - dd_bboxes[i][3]) < 2
           /\ Abs(dd_bbox[4] - dd_bboxes[i][4]) < 2
    /\ dd_bboxes = <<>> => dd_result = "False"

\* C4's case: the candidate is exactly 2 away from an accepted rectangle on
\* one coordinate and closer on the three others, and is found to be new.
C4_Witness ==
  /\ dd_result = "False"
  /\ \E i \in 1..Len(dd_bboxes) : \E k \in 1..4 :
       /\ Abs(dd_bbox[k] - dd_bboxes[i][k]) = 2
       /\ \A m \in (1..4) \ {k} : Abs(dd_bbox[m] - dd_bboxes[i][m]) < 2

\* The strategies in the order the claim gives.
ClaimedOrder == <<"lines_strict", "lines", "text">>
Priority(strat) == CHOOSE i \in 1..3 : ClaimedOrder[i] = strat

\* C5 (as claimed), its last part: when two detections on a page (tables of
\* at least 2 rows and 2 columns) are near-duplicates, only the first one
\* encountered is retained.  At the later one's step: if an earlier detection
\* of the page, retained or rejected as a duplicate, is a near-duplicate of
\* this one, this one is not accepted.
C5_FirstOfNearDuplicatesRetained ==
  [][ (TableStep /\ Head(tf).row_count >= 2 /\ Head(tf).col_count >= 2) =>
        ((\E b \in page_dupes \cup { page_tables[i][2].bbox : i \in 1..Len(page_tables) } :
            NearDuplicate(b, Head(tf).bbox))
           => ~AcceptedByStep) ]_vars

\* The listing of the page just finished, read from the end of out.
LastSectionMatches ==
  LET m == Len(page_tables)
      base == Len(out) - 3 * m
  IN /\ base >= 1
     /\ out[base] = [k |-> "page", n |-> pno + 1]
     /\ \A i \in 1..m :
          /\ out[base + 3 * i - 2].k = "table"
          /\ out[base + 3 * i - 2].i = i
          /\ out[base + 3 * i - 2].strategy = page_tables[i][1]
          /\ out[base + 3 * i - 2].rows = page_tables[i][2].row_count
          /\ out[base + 3 * i - 2].cols = page_tables[i][2].col_count
          /\ out[base + 3 * i - 1].t = page_tables[i][2]

C5_State ==
  \* the strategies are tried in the fixed order
  /\ page_calls = SubSeq(ClaimedOrder, 1, Len(page_calls))
  \* the accepted tables are in strategy priority order
  /\ \A i, j \in 1..Len(page_tables) :
       i < j => Priority(page_tables[i][1]) <= Priority(page_tables[j][1])
  \* the finished page lists them in that order, numbered from 1
  /\ (pc = "ex_page" /\ page_tables # <<>>) => LastSectionMatches

C5_Step ==
  TableStep =>
    \* the tables of one strategy are handled in the detector's order
    /\ tf' = Tail(tf)
    \* an accepted table goes to the end of the list, with the tag of the
    \* strategy that found it
    /\ page_tables' = page_tables \/ AcceptedByStep
    /\ page_calls # <<>> /\ page_calls[Len(page_calls)] = strategies[sidx]
    \* a near-duplicate of a retained table is not retained
    /\ (\E i \in 1..Len(page_tables) :
          NearDuplicate(page_tables[i][2].bbox, Head(tf).bbox))
         => page_tables' = page_tables

\* C5 (amended): the strategies are tried in the order lines_strict, lines,
\* text; the accepted tables are listed and numbered from 1 in acceptance
\* order (strategy priority, then the detector's order); a detection that is a
\* near-duplicate of a table already retained on the page is not retained, and
\* a retained table keeps the tag of the strategy that found it.
C5_AcceptanceOrder == []C5_State /\ [][C5_Step]_vars

\* C5's case: a page is finished with two tables listed, the first found by
\* lines_strict and the second by text, and a near-duplicate rejected.
C5_Witness ==
  /\ pc = "ex_page"
  /\ Len(page_tables) = 2
  /\ page_tables[1][1] = "lines_strict"
  /\ page_tables[2][1] = "text"
  /\ page_dupes # {}
  /\ out # <<>>

\* The pages of the range, in the order asked for.
RequestedPages ==
  IF requested.given THEN requested.pages ELSE [i \in 1..page_count |-> i - 1]

C6_State ==
  \* a finished page has had every strategy tried
  /\ (pc \in {"ex_page", "done"} /\ visited # <<>>) => page_calls = ClaimedOrder
  \* a run that returns has processed every page of the range
  /\ pc = "done" => visited = RequestedPages /\ err = "none"
  \* a page on which all three strategies failed contributes nothing
  /\ (pc \in {"ex_page", "done"} /\ page_raised = {"lines_strict", "lines", "text"})
       => /\ page_tables = <<>>
          /\ \A i \in 1..Len(out) : out[i] # [k |-> "page", n |-> pno + 1]

C6_Step ==
  (page_raised # page_raised' /\ page_raised \subseteq page_raised')
    => /\ pc' = "ex_strategy"
       /\ err' = "none"
       /\ pno' = pno
       /\ pages_iter' = pages_iter
       /\ page_tables' = page_tables
       /\ seen_bboxes' = seen_bboxes
       /\ out' = out

\* C6: when the detector raises for one strategy on a page, the extraction
\* does not raise and does not abandon the page: the remaining strategies are
\* tried, the tables accepted so far are kept, the later pages are processed,
\* and a page on which all three strategies fail contributes no tables.
C6_StrategyFailureSkipped == []C6_State /\ [][C6_Step]_vars

\* C6's case: a run over two pages has returned; on its first page a strategy
\* raised and a table was still listed, and the second page was processed.
C6_Witness ==
  /\ pc = "done"
  /\ Len(visited) = 2
  /\ any_raised
  /\ page_raised = {}
  /\ \E i \in 1..Len(out) : out[i] = [k |-> "page", n |-> visited[1] + 1]

\* C10 (as claimed): the page sections of the result are in strictly
\* ascending page order, each page at most once, for the default range and for
\* any range the caller supplies.
C10_PagesAscending ==
  pc = "done" =>
    \A i, j \in PageLinesOf(result) : i < j => result[i].n < result[j].n
\* C2 (as claimed): in both conversions a path that does not exist raises the
\* "not found" error and an existing path whose extension is not ".pdf" in any
\* letter case raises the "wrong type" error, before the document is opened
\* or anything is written.
C2_PathValidated ==
  caller \in {"whole", "chunked"} =>
    /\ ~pdf_file.exists =>
         err = "FileNotFoundError" /\ ~opened /\ written = <<>>
    /\ (pdf_file.exists /\ pdf_file.suffix \notin {<<".", "p", "d", "f">>, <<".", "P", "D", "F">>}) =>
         err = "ValueError" /\ ~opened /\ written = <<>>

\* The name the claim gives the file of page k (1-based), for k < 10.
ClaimedPageFile(k) == <<"page_", "0", "0", DigitChars[k + 1], ".md">>

\* A file's text holds the text of page k (1-based) and tables of page k only.
OnlyOfPage(text, k) ==
  /\ text[1] = [k |-> "text", p |-> k - 1]
  /\ \A i \in 1..Len(text) :
       /\ text[i].k \in {"text", "blank", "title", "page", "table", "md", "failed"}
       /\ text[i].k = "text" => text[i].p = k - 1
       /\ text[i].k = "page" => text[i].n = k
       /\ text[i].k \in {"md", "failed"} => text[i].t.page = k - 1
       /\ text[i].k \in {"title", "page", "table", "md", "failed"} => include_tables

\* C7 (as claimed): after convert_with_page_chunks on an N-page document the
\* output directory holds exactly N files, page_001.md to page_N, and the
\* file of page k holds page k's text and tables only.
C7_DirectoryHoldsExactlyNFiles ==
  (pc = "done" /\ caller = "chunked") =>
    /\ DOMAIN fs = { ClaimedPageFile(k) : k \in 1..page_count }
    /\ \A k \in 1..page_count : OnlyOfPage(fs[ClaimedPageFile(k)], k)

\* C7 (amended): convert_with_page_chunks on an N-page document writes exactly
\* N files into the output directory, page_001.md to page_N in this order, and
\* the file of page k holds page k's text and tables only; a file the
\* directory held before under another name is left as it was.
C7_WritesExactlyNFiles ==
  (pc = "done" /\ caller = "chunked") =>
    /\ <<"report", "_pages">> \in dirs
    /\ written = [k \in 1..page_count |-> ClaimedPageFile(k)]
    /\ \A k \in 1..page_count : OnlyOfPage(fs[ClaimedPageFile(k)], k)
    /\ \A x \in (DOMAIN fs) \ { ClaimedPageFile(k) : k \in 1..page_count } :
         fs[x] = <<[k |-> "stale"]>>

\* C7's case: a two-page document with a table on each page was converted
\* into a directory that held files of an earlier conversion.
C7_Witness ==
  /\ pc = "done"
  /\ caller = "chunked"
  /\ page_count = 2
  /\ \A k \in 1..2 : \E i \in 1..Len(fs[ClaimedPageFile(k)]) :
       fs[ClaimedPageFile(k)][i].k \in {"md", "failed"}
  /\ Cardinality(DOMAIN fs) = 3

\* C8 (as claimed): in both conversions, when a failure of the rendering or of
\* the table extraction reaches the caller, no output file of the run has been
\* written.
C8_NoFileOnFailure ==
  (pc = "raised" /\ err = "processing") => written = <<>>

\* C8 (amended): a failure of the rendering or of the table extraction reaches
\* the caller.  In convert_pdf_to_markdown no output file has been written
\* when it does, and the file is written only by a run that completes.  In
\* convert_with_page_chunks a rendering failure leaves no file, and a failure
\* of the table extraction of page k leaves the files of the pages before k,
\* each of them complete.
C8_FilesOnFailure ==
  /\ (pc = "raised" /\ err = "processing" /\ caller = "whole") => written = <<>>
  /\ (caller = "whole" /\ written # <<>>) => (pc = "done" /\ Len(written) = 1)
  /\ (pc = "raised" /\ err = "processing" /\ caller = "chunked") =>
       /\ written = [k \in 1..Len(written) |-> ClaimedPageFile(k)]
       /\ Len(written) < page_count
       /\ visited = <<>> => written = <<>>
       /\ visited # <<>> => visited = <<Len(written)>>
       /\ \A k \in 1..Len(written) : OnlyOfPage(fs[ClaimedPageFile(k)], k)
  /\ (pc = "done" /\ caller = "chunked") => Len(written) = page_count

\* C8's case: the table extraction of the second page failed in
\* convert_with_page_chunks after the first page's file, with a table in it,
\* was written.
C8_Witness ==
  /\ pc = "raised"
  /\ err = "processing"
  /\ caller = "chunked"
  /\ written = <<ClaimedPageFile(1)>>
  /\ \E i \in 1..Len(fs[ClaimedPageFile(1)]) : fs[ClaimedPageFile(1)][i].k = "md"

\* The pages that have a page line in a text.
HeadedPages(text) == { text[i].n - 1 : i \in PageLinesOf(text) }

\* C9: extract_tables_markdown returns the empty string exactly when no page
\* of the range has an accepted table; otherwise the result starts with the
\* one document heading and has a page heading for exactly the pages with an
\* accepted table.  convert_pdf_to_markdown on a document without qualifying
\* tables writes exactly the renderer's text.
C9_EmptyWithoutTables ==
  /\ pc \in {"w_tables", "c_tables"} =>
       /\ result = <<[k |-> "blank"]>> <=> with_tables = {}
       /\ with_tables # {} =>
            /\ result[1] = [k |-> "title"]
            /\ Cardinality({ i \in 1..Len(result) : result[i].k = "title" }) = 1
            /\ HeadedPages(result) = with_tables
            /\ Cardinality(PageLinesOf(result)) = Cardinality(with_tables)
  /\ (pc = "done" /\ caller = "whole" /\ (with_tables = {} \/ ~include_tables)) =>
       /\ Len(written) = 1
       /\ fs[written[1]] = rendered

\* C9's case: convert_pdf_to_markdown, with tables asked for, finished on a
\* document whose only detections were degenerate, the rendered text ending
\* with a newline.
C9_Witness ==
  /\ pc = "done"
  /\ caller = "whole"
  /\ include_tables
  /\ with_tables = {}
  /\ ndet = 2
  /\ ~any_raised
  /\ rendered = <<[k |-> "doctext"], [k |-> "blank"]>>
====
